---- MODULE Spec2Model ----
(***************************************************************************)
(* Model of the trading engine of src/bot.py: the rolling candle window of *)
(* StrategyEngine, the readiness rule of analyze(), the decision and       *)
(* ledger mutation of process_market_update, and init_db at (re)start.     *)
(*                                                                         *)
(* Numbers.  The code computes on Python floats; the model computes on     *)
(* exact rationals [n, d] in lowest terms (d > 0).  The indicator values   *)
(* that pandas_ta derives from the window (RSI_14, SMA_20, EMA_200,        *)
(* MACDh_12_26_9) are inputs of a cycle, drawn from small sets; what       *)
(* analyze() itself decides (the ready flag, the neutral defaults of the   *)
(* columns that do not exist yet, price = the last close) is computed.     *)
(* A candle is identified in the window by the ordinal of the update()     *)
(* call that appended it to this StrategyEngine; last_updated is a logical *)
(* time that every datetime.now() assignment moves strictly forward.       *)
(***************************************************************************)
EXTENDS Integers, Sequences, FiniteSets, TLC

VARIABLES df, received, signals, portfolio, trades, loaded, trade_side, reason, restarts,
          loop, written, alert, seen

vars == <<df, received, signals, portfolio, trades, loaded, trade_side, reason, restarts,
          loop, written, alert, seen>>

---------------------------------------------------------------------------
(* Bounds of the exploration *)

MaxCandles == 202

MaxTrades == 3

MaxRestarts == 1

MaxCandlesAfterRestart == 2

MaxFaultyWarmups == 1

MaxFeedCandles == 302

---------------------------------------------------------------------------
(* Exact rational arithmetic standing for the float arithmetic of the code *)

Abs(x) == IF x < 0 THEN -x ELSE x

RECURSIVE GCD(_, _)
GCD(a, b) == IF b = 0 THEN a ELSE GCD(b, a % b)

Rat(n, d) ==
    LET g == GCD(Abs(n), Abs(d))
        s == IF d < 0 THEN -1 ELSE 1
    IN  [n |-> (s * n) \div g, d |-> (s * d) \div g]

Zero == Rat(0, 1)

RAdd(a, b) ==
    LET g == GCD(a.d, b.d)
    IN  Rat(a.n * (b.d \div g) + b.n * (a.d \div g), (a.d \div g) * b.d)

RNeg(a) == [n |-> -a.n, d |-> a.d]

RSub(a, b) == RAdd(a, RNeg(b))

RMul(a, b) ==
    LET g1 == GCD(Abs(a.n), b.d)
        g2 == GCD(Abs(b.n), a.d)
    IN  Rat((a.n \div g1) * (b.n \div g2), (a.d \div g2) * (b.d \div g1))

RInv(a) == Rat(a.d, a.n)

RDiv(a, b) == RMul(a, RInv(b))

RLt(a, b) == a.n * b.d < b.n * a.d

RGt(a, b) == RLt(b, a)

RLe(a, b) == ~RLt(b, a)

RMax(a, b) == IF RLt(a, b) THEN b ELSE a

---------------------------------------------------------------------------
(* Program constants *)

WindowCap == 300

ReadyLen == 200

RsiLen == 14

SmaLen == 20

MacdLen == 35

RsiDefault == 50

RsiBuyBelow == 40

RsiSellAbove == 70

InitialCash == 10000

BuyFraction == Rat(99, 100)

TrailingStop == Rat(15, 1000)

HardStop == Rat(-2, 100)

ReasonBuy == "Uptrend RSI Pullback"

ReasonRsi == "RSI Overbought"

ReasonTrailing == "Trailing Stop (1.5%)"

ReasonHardStop == "Stop Loss (-2%)"

NoSide == "None"

---------------------------------------------------------------------------
(* Inputs of a cycle: the close of the candle and the pandas_ta outputs *)

Prices == {Rat(96, 1), Rat(99, 1), Rat(100, 1), Rat(110, 1)}

RsiValues == {30, 40, 70, 80}

EmaValues == {Rat(96, 1), Rat(109, 1)}

SmaValues == {Rat(100, 1)}

(* <<MACDh of the last row, MACDh of the row before>>: rising, flat *)
MacdPairs == {<<1, 0>>, <<0, 0>>}

---------------------------------------------------------------------------
(* StrategyEngine *)

Last(s) == s[Len(s)]

(* mutation: the trim keeps the oldest rows *)
TailN_Head(s, k) == IF Len(s) <= k THEN s ELSE SubSeq(s, 1, k)

TailN(s, k) == IF Len(s) <= k THEN s ELSE SubSeq(s, Len(s) - k + 1, Len(s))

update(window, candle) == TailN(Append(window, candle), WindowCap)

(* mutation: readiness tied to the shortest indicator instead of the longest *)
has_enough_data_Rsi(window) == Len(window) >= RsiLen

has_enough_data(window) == Len(window) >= ReadyLen

analyze(window, close, rsi, sma, ema, macd_h, macd_h_prev) ==
    [ready       |-> has_enough_data(window),
     price       |-> close,
     rsi         |-> IF Len(window) >= RsiLen THEN rsi ELSE RsiDefault,
     sma_20      |-> IF Len(window) >= SmaLen THEN sma ELSE Zero,
     ema_200     |-> IF Len(window) >= ReadyLen THEN ema ELSE Zero,
     macd_h      |-> IF Len(window) >= MacdLen THEN macd_h ELSE 0,
     macd_h_prev |-> IF Len(window) >= MacdLen THEN macd_h_prev ELSE 0]

NoSignals == analyze(<<>>, Zero, RsiDefault, Zero, Zero, 0, 0)

---------------------------------------------------------------------------
(* Portfolio row and init_db *)

DefaultPortfolio ==
    [usd_balance   |-> Rat(InitialCash, 1),
     btc_balance   |-> Zero,
     in_position   |-> FALSE,
     entry_price   |-> Zero,
     highest_price |-> Zero,
     last_updated  |-> 0]

(* mutation: every start adds a default row in front of the table *)
init_db_Always(table) == <<DefaultPortfolio>> \o table

init_db(table) == IF table = <<>> THEN <<DefaultPortfolio>> ELSE table

---------------------------------------------------------------------------
(* process_market_update: the trade logic on the row the session loaded *)

is_uptrend(s) == RGt(s.price, s.ema_200)

(* mutation: the rising-histogram test is dropped *)
BuyCondition_NoMacd(s) == is_uptrend(s) /\ s.rsi < RsiBuyBelow

BuyCondition(s) ==
    is_uptrend(s) /\ s.rsi < RsiBuyBelow /\ s.macd_h > s.macd_h_prev

BuyQty(p, price) == RDiv(RMul(p.usd_balance, BuyFraction), price)

(* mutation: the BUY leaves entry_price and highest_price as loaded *)
Buy_NoEntry(p, price) ==
    LET qty == BuyQty(p, price)
    IN  [p EXCEPT !.btc_balance = qty,
                  !.usd_balance = RSub(p.usd_balance, RMul(qty, price)),
                  !.in_position = TRUE]

(* mutation: the BUY debits all the cash, the unspent part included *)
Buy_SpendAll(p, price) ==
    LET qty == BuyQty(p, price)
    IN  [p EXCEPT !.btc_balance   = qty,
                  !.usd_balance   = Zero,
                  !.in_position   = TRUE,
                  !.entry_price   = price,
                  !.highest_price = price]

Buy(p, price) ==
    LET qty == BuyQty(p, price)
    IN  [p EXCEPT !.btc_balance   = qty,
                  !.usd_balance   = RSub(p.usd_balance, RMul(qty, price)),
                  !.in_position   = TRUE,
                  !.entry_price   = price,
                  !.highest_price = price]

(* mutation: the high-water mark follows the price down as well as up *)
UpdateHighest_Always(p, price) == [p EXCEPT !.highest_price = price]

UpdateHighest(p, price) ==
    IF RGt(price, p.highest_price) THEN [p EXCEPT !.highest_price = price] ELSE p

pnl(p, price) == RDiv(RSub(price, p.entry_price), p.entry_price)

drawdown(p, price) == RDiv(RSub(p.highest_price, price), p.highest_price)

(* mutation: the trailing stop is dropped *)
SellReason_NoTrailing(rsi, dd, pl) ==
    IF rsi > RsiSellAbove THEN ReasonRsi
    ELSE IF RLt(pl, HardStop) THEN ReasonHardStop
    ELSE ""

(* mutation: the trailing stop is tested before the RSI exit *)
SellReason_TrailingFirst(rsi, dd, pl) ==
    IF RGt(dd, TrailingStop) THEN ReasonTrailing
    ELSE IF rsi > RsiSellAbove THEN ReasonRsi
    ELSE IF RLt(pl, HardStop) THEN ReasonHardStop
    ELSE ""

(* mutation: the hard stop is tested before the trailing stop *)
SellReason_HardFirst(rsi, dd, pl) ==
    IF rsi > RsiSellAbove THEN ReasonRsi
    ELSE IF RLt(pl, HardStop) THEN ReasonHardStop
    ELSE IF RGt(dd, TrailingStop) THEN ReasonTrailing
    ELSE ""

SellReason(rsi, dd, pl) ==
    IF rsi > RsiSellAbove THEN ReasonRsi
    ELSE IF RGt(dd, TrailingStop) THEN ReasonTrailing
    ELSE IF RLt(pl, HardStop) THEN ReasonHardStop
    ELSE ""

(* mutation: the position flag is not cleared *)
Sell_KeepFlag(p, price) ==
    [p EXCEPT !.usd_balance = RAdd(p.usd_balance, RMul(p.btc_balance, price)),
              !.btc_balance = Zero]

(* mutation: the proceeds are debited instead of credited *)
Sell_Debit(p, price) ==
    [p EXCEPT !.usd_balance = RSub(p.usd_balance, RMul(p.btc_balance, price)),
              !.btc_balance = Zero,
              !.in_position = FALSE]

Sell(p, price) ==
    [p EXCEPT !.usd_balance = RAdd(p.usd_balance, RMul(p.btc_balance, price)),
              !.btc_balance = Zero,
              !.in_position = FALSE]

BuyBranch(p, s) ==
    IF BuyCondition(s)
    THEN [portfolio |-> Buy(p, s.price), trade_side |-> "BUY", reason |-> ReasonBuy]
    ELSE [portfolio |-> p, trade_side |-> NoSide, reason |-> ""]

ManageBranch(p, s) ==
    LET q == UpdateHighest(p, s.price)
        r == SellReason(s.rsi, drawdown(q, s.price), pnl(q, s.price))
    IN  IF r # ""
        THEN [portfolio |-> Sell(q, s.price), trade_side |-> "SELL", reason |-> r]
        ELSE [portfolio |-> q, trade_side |-> NoSide, reason |-> ""]

(* mutation: the buy branch is not guarded by the position flag *)
TradeLogic_Pyramid(p, s) ==
    IF BuyCondition(s) THEN BuyBranch(p, s)
    ELSE IF p.in_position THEN ManageBranch(p, s)
    ELSE BuyBranch(p, s)

TradeLogic(p, s) ==
    IF ~p.in_position THEN BuyBranch(p, s) ELSE ManageBranch(p, s)

(* mutation: the reason is not passed on to the record *)
new_trade_NoReason(side, price, p, why) ==
    [side        |-> side,
     price       |-> price,
     quantity    |-> IF side = "BUY" THEN p.btc_balance ELSE Zero,
     usd_balance |-> p.usd_balance,
     btc_balance |-> p.btc_balance,
     reason      |-> ""]

new_trade(side, price, p, why) ==
    [side        |-> side,
     price       |-> price,
     quantity    |-> IF side = "BUY" THEN p.btc_balance ELSE Zero,
     usd_balance |-> p.usd_balance,
     btc_balance |-> p.btc_balance,
     reason      |-> why]

(* mutation: last_updated is left as loaded *)
Touch_Skip(p) == p

(* portfolio.last_updated = now: time as a counter of the writes *)
Touch(p) == [p EXCEPT !.last_updated = @ + 1]

---------------------------------------------------------------------------
(* The session's unit of work and the notification *)

NothingWritten == [prices |-> 0, indicators |-> 0, trades |-> 0, portfolio |-> 0]

(* mutation: the tick and the snapshot are added only by a ready cycle *)
UnitOfWork_ReadyOnly(ready, side) ==
    [prices     |-> IF ready THEN 1 ELSE 0,
     indicators |-> IF ready THEN 1 ELSE 0,
     trades     |-> IF side # NoSide THEN 1 ELSE 0,
     portfolio  |-> IF ready THEN 1 ELSE 0]

(* Rows one commit writes: the PriceLog and the IndicatorLog added before the  *)
(* warm-up check, the Trade of a BUY/SELL, the row dirtied by last_updated.    *)
UnitOfWork(ready, side) ==
    [prices     |-> 1,
     indicators |-> 1,
     trades     |-> IF side # NoSide THEN 1 ELSE 0,
     portfolio  |-> IF ready THEN 1 ELSE 0]

(* mutation: the mutated cash reaches the table before the commit *)
Visible_CashFirst(stored, in_session) ==
    [stored EXCEPT !.usd_balance = in_session.usd_balance]

(* What the table holds while the session's changes are not committed *)
Visible(stored, in_session) == stored

(* mutation: the error of the post is not caught *)
send_discord_alert_Raises(post_ok) == IF post_ok THEN "returned" ELSE "raised"

(* send_discord_alert with DISCORD_WEBHOOK set: a failing post is caught *)
send_discord_alert(post_ok) == "returned"

NoAlert == [side |-> NoSide, reason |-> "", delivered |-> FALSE]

(* mutation: a reconnect starts from a new StrategyEngine *)
strategy_after_reconnect_New(window) == <<>>

(* strategy is created once, before the reconnect loop *)
strategy_after_reconnect(window) == window

(* The columns of the portfolio row the dashboard uses *)
dashboard_read(row) ==
    [usd_balance   |-> row.usd_balance,
     btc_balance   |-> row.btc_balance,
     highest_price |-> row.highest_price,
     in_position   |-> row.in_position]

---------------------------------------------------------------------------
(* State machine.  loop is the position of market_data_loop: "receiving"    *)
(* in recv(), "alerting" in the await of send_discord_alert inside a        *)
(* BUY/SELL cycle, "reconnecting" between two connections, "cancelled"      *)
(* after bot_task.cancel().  written is the unit of work the last commit    *)
(* of the current cycle wrote, alert the message the cycle handed to the    *)
(* webhook, seen the last read of the dashboard.                            *)

Init ==
    /\ df = <<>>
    /\ received = 0
    /\ signals = NoSignals
    /\ portfolio = init_db(<<>>)
    /\ trades = <<>>
    /\ loaded = DefaultPortfolio
    /\ trade_side = NoSide
    /\ reason = ""
    /\ restarts = 0
    /\ loop = "receiving"
    /\ written = NothingWritten
    /\ alert = NoAlert
    /\ seen = dashboard_read(DefaultPortfolio)

(* How many candles an engine is followed for: through the warm-up and a few    *)
(* ready cycles on the first run, a few warm-up cycles after a restart.        *)
CandleBound == IF restarts = 0 THEN MaxCandles ELSE MaxCandlesAfterRestart

(* mutation: the row is saved on its own, before the Trade is inserted *)
Commit_RowFirst(commit_ok, row, log, ready, side) ==
    /\ portfolio' = <<row>> \o Tail(portfolio)
    /\ IF commit_ok
       THEN /\ trades' = log
            /\ written' = UnitOfWork(ready, side)
            /\ loop' = "receiving"
       ELSE /\ UNCHANGED trades
            /\ written' = NothingWritten
            /\ loop' = "reconnecting"

(* session.commit(): all rows of the unit of work, or an exception that     *)
(* leaves the tables as they were and ends the connection loop's pass.      *)
Commit(commit_ok, row, log, ready, side) ==
    IF commit_ok
    THEN /\ portfolio' = <<row>> \o Tail(portfolio)
         /\ trades' = log
         /\ written' = UnitOfWork(ready, side)
         /\ loop' = "receiving"
    ELSE /\ UNCHANGED <<portfolio, trades>>
         /\ written' = NothingWritten
         /\ loop' = "reconnecting"

(* strategy.update, strategy.analyze and process_market_update up to its    *)
(* commit, or up to the await of the alert in a BUY/SELL cycle.             *)
Process(close, rsi, sma, ema, macd_h, macd_h_prev, commit_ok) ==
    /\ loop = "receiving"
    /\ received' = received + 1
    /\ df' = update(df, received + 1)
    /\ signals' = analyze(df', close, rsi, sma, ema, macd_h, macd_h_prev)
    /\ loaded' = Head(portfolio)
    /\ alert' = NoAlert
    /\ IF ~signals'.ready
       THEN /\ trade_side' = NoSide
            /\ reason' = ""
            /\ Commit(commit_ok, loaded', trades, FALSE, NoSide)
       ELSE LET out == TradeLogic(loaded', signals')
            IN  /\ trade_side' = out.trade_side
                /\ reason' = out.reason
                /\ IF out.trade_side # NoSide
                   THEN /\ loop' = "alerting"
                        /\ written' = NothingWritten
                        /\ portfolio' = <<Visible(loaded', out.portfolio)>>
                                            \o Tail(portfolio)
                        /\ UNCHANGED trades
                   ELSE Commit(commit_ok, Touch(out.portfolio), trades, TRUE, NoSide)
    /\ UNCHANGED <<restarts, seen>>

(* Which cycles are followed through a failing commit as well: the ready    *)
(* cycles and the last warm-up cycles before them.                          *)
FaultyCycle == received + 1 >= ReadyLen - MaxFaultyWarmups

(* One closed candle *)
ClosedCandle(close, rsi, sma, ema, macd_h, macd_h_prev, commit_ok) ==
    /\ received < CandleBound
    /\ Len(trades) < MaxTrades
    /\ commit_ok \/ FaultyCycle
    /\ Process(close, rsi, sma, ema, macd_h, macd_h_prev, commit_ok)

(* The rest of a BUY/SELL cycle: the post to the webhook succeeds or fails, *)
(* then last_updated and the commit.                                        *)
AlertReturn(post_ok, commit_ok) ==
    /\ loop = "alerting"
    /\ alert' = [side |-> trade_side, reason |-> reason, delivered |-> post_ok]
    /\ LET out == TradeLogic(loaded, signals)
       IN  IF send_discord_alert(post_ok) = "raised"
           THEN /\ written' = NothingWritten
                /\ loop' = "reconnecting"
                /\ UNCHANGED <<portfolio, trades>>
           ELSE Commit(commit_ok, Touch(out.portfolio),
                       Append(trades, new_trade(trade_side, signals.price,
                                                out.portfolio, reason)),
                       TRUE, trade_side)
    /\ UNCHANGED <<df, received, signals, loaded, trade_side, reason, restarts, seen>>

(* cleanup_background_tasks cancels the task while it awaits the alert: the *)
(* post was handed to the webhook or not, the session closes uncommitted.   *)
(* (A cancellation in recv() leaves nothing in flight: it is the first half *)
(* of Restart.)                                                             *)
Cancel(sent) ==
    /\ loop = "alerting"
    /\ alert' = IF sent
                THEN [side |-> trade_side, reason |-> reason, delivered |-> TRUE]
                ELSE NoAlert
    /\ written' = NothingWritten
    /\ loop' = "cancelled"
    /\ UNCHANGED <<df, received, signals, portfolio, trades, loaded, trade_side,
                   reason, restarts, seen>>

(* websockets.ConnectionClosed in recv(): caught, the loop connects again *)
ConnectionClosed ==
    /\ loop = "receiving"
    /\ loop' = "reconnecting"
    /\ UNCHANGED <<df, received, signals, portfolio, trades, loaded, trade_side,
                   reason, restarts, written, alert, seen>>

(* json.loads or data['k'] raises: caught by the outer handler, sleep, again *)
MalformedPayload ==
    /\ loop = "receiving"
    /\ loop' = "reconnecting"
    /\ UNCHANGED <<df, received, signals, portfolio, trades, loaded, trade_side,
                   reason, restarts, written, alert, seen>>

(* websockets.connect succeeds *)
Reconnect ==
    /\ loop = "reconnecting"
    /\ loop' = "receiving"
    /\ df' = strategy_after_reconnect(df)
    /\ UNCHANGED <<received, signals, portfolio, trades, loaded, trade_side,
                   reason, restarts, written, alert, seen>>

(* The process is stopped and started again: init_db, a new StrategyEngine *)
Restart ==
    /\ restarts < MaxRestarts
    /\ restarts' = restarts + 1
    /\ portfolio' = init_db(portfolio)
    /\ df' = <<>>
    /\ received' = 0
    /\ signals' = NoSignals
    /\ loaded' = Head(portfolio')
    /\ trade_side' = NoSide
    /\ reason' = ""
    /\ loop' = "receiving"
    /\ written' = NothingWritten
    /\ alert' = NoAlert
    /\ UNCHANGED <<trades, seen>>

(* One poll of the dashboard once the prices table has a row:              *)
(* SELECT * FROM portfolio LIMIT 1                                          *)
Dashboard ==
    /\ received > 0
    /\ seen' = dashboard_read(Head(portfolio))
    /\ UNCHANGED <<df, received, signals, portfolio, trades, loaded, trade_side,
                   reason, restarts, loop, written, alert>>

Next ==
    \/ \E close \in Prices, rsi \in RsiValues, sma \in SmaValues, ema \in EmaValues,
          macd \in MacdPairs, commit_ok \in BOOLEAN :
            ClosedCandle(close, rsi, sma, ema, macd[1], macd[2], commit_ok)
    \/ \E post_ok \in BOOLEAN, commit_ok \in BOOLEAN : AlertReturn(post_ok, commit_ok)
    \/ \E sent \in BOOLEAN : Cancel(sent)
    \/ ConnectionClosed
    \/ MalformedPayload
    \/ Reconnect
    \/ Restart

(* The engine alone, over every signal value and every outcome of a commit  *)
(* and of a post, for a few cycles past the warm-up.                        *)
Spec == Init /\ [][Next]_vars

(* A long quiet feed: one price, a pullback, a neutral or an overbought     *)
(* RSI, every commit succeeding, so that the window fills past its cap.     *)
FeedPrices == {Rat(100, 1)}

FeedRsiValues == {30, 70, 80}

FeedEmaValues == {Rat(96, 1)}

FeedMacdPairs == {<<1, 0>>}

FeedCandle(close, rsi, sma, ema, macd_h, macd_h_prev) ==
    /\ received < MaxFeedCandles
    /\ Len(trades) < MaxTrades
    /\ Process(close, rsi, sma, ema, macd_h, macd_h_prev, TRUE)

NextFeed ==
    \/ \E close \in FeedPrices, rsi \in FeedRsiValues, sma \in SmaValues,
          ema \in FeedEmaValues, macd \in FeedMacdPairs :
            FeedCandle(close, rsi, sma, ema, macd[1], macd[2])
    \/ \E post_ok \in BOOLEAN : AlertReturn(post_ok, TRUE)
    \/ ConnectionClosed
    \/ MalformedPayload
    \/ Reconnect
    \/ Dashboard

(* The engine on the long feed with the dashboard polling beside it; the    *)
(* loop of market_data_loop always tries the next connection.               *)
FeedSpec == Init /\ [][NextFeed]_vars /\ WF_vars(Reconnect)

---------------------------------------------------------------------------
(* Vocabulary of the properties.  After a ClosedCandle step, loaded is the  *)
(* row the cycle started from, signals its input and Row the row it left.   *)

Row == Head(portfolio)

(* The cycle that signals, loaded and trade_side describe has committed *)
Committed == written.prices = 1

ReadyFlat == signals.ready /\ ~loaded.in_position /\ Committed

ReadyLong == signals.ready /\ loaded.in_position /\ Committed

HighSeen == RMax(loaded.highest_price, signals.price)

DrawdownSeen == RDiv(RSub(HighSeen, signals.price), HighSeen)

PnlSeen == RDiv(RSub(signals.price, loaded.entry_price), loaded.entry_price)

RsiExit == signals.rsi > 70

TrailingExit == RGt(DrawdownSeen, Rat(15, 1000))

HardExit == RLt(PnlSeen, Rat(-2, 100))

SameLedger(p, q) ==
    /\ p.usd_balance = q.usd_balance
    /\ p.btc_balance = q.btc_balance
    /\ p.in_position = q.in_position

---------------------------------------------------------------------------
(* C1: in a ready cycle that starts FLAT, a BUY happens exactly when        *)
(* price > ema_200, rsi < 40 and macd_h > macd_h_prev; the BUY turns 99% of *)
(* the prior cash into asset at the current price, leaves the 1% residue as *)
(* cash, opens the position and sets entry_price and highest_price to the   *)
(* price; without a BUY the balances and the position flag are unchanged.   *)
C1_BuyRule ==
    ReadyFlat =>
        /\ (trade_side = "BUY") <=>
              (/\ RGt(signals.price, signals.ema_200)
               /\ signals.rsi < 40
               /\ signals.macd_h > signals.macd_h_prev)
        /\ trade_side = "BUY" =>
              /\ Row.btc_balance =
                    RDiv(RMul(Rat(99, 100), loaded.usd_balance), signals.price)
              /\ RGt(Row.btc_balance, Zero)
              /\ Row.usd_balance = RMul(Rat(1, 100), loaded.usd_balance)
              /\ Row.in_position
              /\ Row.entry_price = signals.price
              /\ Row.highest_price = signals.price
        /\ trade_side # "BUY" => SameLedger(Row, loaded)

C1_Witness ==
    /\ ReadyFlat
    /\ trade_side = "BUY"
    /\ Row.in_position
    /\ signals.price = Rat(100, 1)
    /\ Row.btc_balance = Rat(99, 1)

---------------------------------------------------------------------------
(* C2: in a ready cycle that starts LONG, with the high-water mark raised   *)
(* to max(highest_price, price), a SELL happens exactly when rsi > 70 or    *)
(* the drawdown exceeds 0.015 or the pnl is below -0.02; the SELL adds      *)
(* asset_balance * price to the cash, zeroes the asset and closes the       *)
(* position; otherwise the cycle is a HOLD that leaves them unchanged.      *)
C2_SellRule ==
    ReadyLong =>
        /\ (trade_side = "SELL") <=> (RsiExit \/ TrailingExit \/ HardExit)
        /\ trade_side = "SELL" =>
              /\ Row.usd_balance =
                    RAdd(loaded.usd_balance, RMul(loaded.btc_balance, signals.price))
              /\ Row.btc_balance = Zero
              /\ ~Row.in_position
        /\ trade_side # "SELL" => trade_side = NoSide /\ SameLedger(Row, loaded)

C2_Witness ==
    /\ ReadyLong
    /\ trade_side = "SELL"
    /\ ~RsiExit
    /\ TrailingExit
    /\ ~Row.in_position
    /\ RGt(Row.usd_balance, loaded.usd_balance)

---------------------------------------------------------------------------
(* C3: when two or more exit conditions hold in a LONG cycle, exactly one   *)
(* SELL record is appended (the record before it is the BUY that opened the *)
(* position) and it carries the reason of the first matching rule in the    *)
(* order RSI, trailing stop, hard stop; a cycle with rsi <= 70 and a        *)
(* drawdown above 1.5% is attributed to the trailing stop.                  *)
ExitCount ==
    (IF RsiExit THEN 1 ELSE 0) + (IF TrailingExit THEN 1 ELSE 0)
        + (IF HardExit THEN 1 ELSE 0)

FirstMatch ==
    IF RsiExit THEN "RSI Overbought"
    ELSE IF TrailingExit THEN "Trailing Stop (1.5%)"
    ELSE "Stop Loss (-2%)"

C3_Priority ==
    (ReadyLong /\ (ExitCount >= 2 \/ (~RsiExit /\ TrailingExit))) =>
        /\ trade_side = "SELL"
        /\ reason = FirstMatch
        /\ Len(trades) >= 2
        /\ Last(trades).side = "SELL"
        /\ Last(trades).price = signals.price
        /\ Last(trades).reason = FirstMatch
        /\ trades[Len(trades) - 1].side = "BUY"
        /\ trades[Len(trades) - 1].price = loaded.entry_price

C3_Witness ==
    /\ ReadyLong
    /\ RsiExit /\ TrailingExit /\ HardExit
    /\ trade_side = "SELL"
    /\ Last(trades).side = "SELL"
    /\ Last(trades).reason = "RSI Overbought"

---------------------------------------------------------------------------
(* C4, as claimed: a ready LONG cycle with pnl < -0.02 and rsi not above 70 *)
(* records a SELL with the hard-stop reason.                                *)
C4_HardStopRecorded ==
    (ReadyLong /\ HardExit /\ ~RsiExit) =>
        /\ trade_side = "SELL"
        /\ Last(trades).reason \in {"Hard Stop Loss", "Stop Loss (-2%)"}

(* C4, amended: such a cycle records a SELL with the trailing-stop reason,  *)
(* because highest_price >= entry_price makes the drawdown exceed 1.5%      *)
(* whenever the pnl is below -2%; no Trade carries the hard-stop reason.    *)
C4_HardStopShadowed ==
    /\ (ReadyLong /\ HardExit /\ ~RsiExit) =>
          /\ TrailingExit
          /\ trade_side = "SELL"
          /\ Last(trades).side = "SELL"
          /\ Last(trades).reason = "Trailing Stop (1.5%)"
    /\ \A i \in DOMAIN trades :
          trades[i].reason \notin {"Hard Stop Loss", "Stop Loss (-2%)"}

C4_Witness ==
    /\ ReadyLong /\ HardExit /\ ~RsiExit
    /\ loaded.entry_price = Rat(100, 1)
    /\ signals.price = Rat(96, 1)
    /\ signals.rsi = 40
    /\ Last(trades).reason = "Trailing Stop (1.5%)"

---------------------------------------------------------------------------
(* C5, as claimed: every Trade's reason is one of "Uptrend RSI Pullback"    *)
(* (BUY), "RSI Overbought", "Trailing Stop Triggered", "Hard Stop Loss".    *)
C5_SpecReasons ==
    \A i \in DOMAIN trades :
        /\ trades[i].side = "BUY" => trades[i].reason = "Uptrend RSI Pullback"
        /\ trades[i].side = "SELL" =>
              trades[i].reason \in
                  {"RSI Overbought", "Trailing Stop Triggered", "Hard Stop Loss"}

(* C5, amended: the reason of a BUY is "Uptrend RSI Pullback"; the reason   *)
(* of a SELL is "RSI Overbought", "Trailing Stop (1.5%)" or                 *)
(* "Stop Loss (-2%)"; the record of a cycle carries the reason the cycle    *)
(* decided (the one put in the alert text), by the rule that matched.       *)
C5_CodeReasons ==
    /\ \A i \in DOMAIN trades :
          /\ trades[i].side = "BUY" => trades[i].reason = "Uptrend RSI Pullback"
          /\ trades[i].side = "SELL" =>
                trades[i].reason \in
                    {"RSI Overbought", "Trailing Stop (1.5%)", "Stop Loss (-2%)"}
    /\ (trade_side # NoSide /\ Committed) =>
          /\ Last(trades).side = trade_side
          /\ Last(trades).reason = reason
    /\ (trade_side = "SELL" /\ RsiExit) => reason = "RSI Overbought"
    /\ (trade_side = "SELL" /\ ~RsiExit) => reason = "Trailing Stop (1.5%)"

C5_Witness ==
    /\ Len(trades) = 2
    /\ trades[1].reason = "Uptrend RSI Pullback"
    /\ trades[2].reason = "Trailing Stop (1.5%)"
    /\ trade_side = "SELL"

---------------------------------------------------------------------------
(* C6: from the initial portfolio, after every cycle the persisted row has  *)
(* in_position = (asset_balance > 0).                                       *)
C6_PositionIffAsset == Row.in_position <=> RGt(Row.btc_balance, Zero)

C6_Witness ==
    /\ Len(trades) = 3
    /\ Row.in_position
    /\ RGt(Row.btc_balance, Zero)
    /\ trades[2].btc_balance = Zero

---------------------------------------------------------------------------
(* C7: cash_balance and asset_balance are never negative, in the row and in *)
(* the balances every Trade records.                                        *)
C7_NonNegative ==
    /\ RLe(Zero, Row.usd_balance)
    /\ RLe(Zero, Row.btc_balance)
    /\ \A i \in DOMAIN trades :
          RLe(Zero, trades[i].usd_balance) /\ RLe(Zero, trades[i].btc_balance)

C7_Witness ==
    /\ Len(trades) = 2
    /\ trade_side = "SELL"
    /\ RLt(Row.usd_balance, Rat(10000, 1))
    /\ RGt(Row.usd_balance, Zero)

---------------------------------------------------------------------------
(* C8: while in position highest_price >= entry_price; highest_price does   *)
(* not decrease from a cycle to the next; a ready cycle that starts LONG    *)
(* leaves highest_price = max(highest_price, price), also when it SELLs.    *)
C8_HighWaterMark ==
    /\ Row.in_position => RLe(Row.entry_price, Row.highest_price)
    /\ loaded.in_position => RLe(loaded.highest_price, Row.highest_price)
    /\ ReadyLong => Row.highest_price = HighSeen

C8_Witness ==
    /\ ReadyLong
    /\ trade_side = "SELL"
    /\ RGt(signals.price, loaded.highest_price)
    /\ Row.highest_price = signals.price

---------------------------------------------------------------------------
(* C9: a cycle is a BUY, a SELL or a HOLD; a BUY starts FLAT and a SELL     *)
(* starts LONG, so the Trade records alternate BUY, SELL, BUY, ... from a   *)
(* BUY and a position is open exactly after an odd number of them.          *)
C9_Alternation ==
    /\ trade_side \in {"BUY", "SELL", NoSide}
    /\ trade_side = "BUY" => ~loaded.in_position
    /\ trade_side = "SELL" => loaded.in_position
    /\ \A i \in DOMAIN trades :
          trades[i].side = IF i % 2 = 1 THEN "BUY" ELSE "SELL"
    /\ Row.in_position <=> (Len(trades) % 2 = 1)

C9_Witness ==
    /\ Len(trades) = 3
    /\ trades[1].side = "BUY" /\ trades[2].side = "SELL" /\ trades[3].side = "BUY"
    /\ trade_side = "BUY"

---------------------------------------------------------------------------
(* C10: while the window holds fewer than 200 candles analyze() reports     *)
(* not-ready and the cycle decides nothing: no Trade is appended and the    *)
(* Portfolio row is unchanged, also when a position is open.                *)
C10_WarmupInert ==
    [][Len(df') < 200 =>
          /\ ~signals'.ready
          /\ trade_side' = NoSide
          /\ trades' = trades
          /\ portfolio' = portfolio]_vars

C10_Witness ==
    /\ Len(df) < 200
    /\ received >= 1
    /\ loaded.in_position
    /\ HardExit
    /\ Row = loaded
    /\ Row.in_position

---------------------------------------------------------------------------
(* C19: after any sequence of update() calls the window holds at most 300   *)
(* candles, the most recently received ones in arrival order: the oldest is *)
(* the one evicted.                                                         *)
C19_WindowFifo ==
    /\ Len(df) <= 300
    /\ Len(df) = IF received <= 300 THEN received ELSE 300
    /\ \A i \in DOMAIN df : df[i] = received - Len(df) + i

C19_Witness ==
    /\ received = 302
    /\ Len(df) = 300
    /\ df[1] = 3
    /\ df[300] = 302

---------------------------------------------------------------------------
(* C11: the Portfolio mutation and the Trade of a BUY/SELL cycle are        *)
(* persisted together or not at all.  While such a cycle has not committed, *)
(* and when its commit fails or the task is cancelled, the stored row and   *)
(* the stored trades stay as they were; the commit stores the Trade and the *)
(* changed row in one step; and the cycle after a failed one starts from    *)
(* the row the failed cycle started from.                                   *)
C11_AllOrNothing ==
    [][/\ (trade_side' # NoSide /\ ~Committed')
            => (portfolio' = portfolio /\ trades' = trades)
       /\ (loop = "alerting" /\ Committed')
            => /\ Len(trades') = Len(trades) + 1
               /\ trades'[Len(trades')].usd_balance = Head(portfolio').usd_balance
               /\ trades'[Len(trades')].btc_balance = Head(portfolio').btc_balance
               /\ Head(portfolio').in_position # Head(portfolio).in_position
       /\ (trade_side # NoSide /\ ~Committed /\ received' = received + 1)
            => loaded' = loaded]_vars

(* a SELL whose commit failed, the loop connected again *)
C11_Witness ==
    /\ trade_side = "SELL"
    /\ alert.side = "SELL"
    /\ ~Committed
    /\ loop = "receiving"
    /\ loaded.in_position
    /\ Row = loaded

---------------------------------------------------------------------------
(* C12: a failing post of the alert never fails the trade path.  On a feed  *)
(* whose commits succeed, a BUY/SELL cycle whose alert was not delivered    *)
(* has committed the Trade and the row the cycle computed, the same unit of *)
(* work as with a delivered alert, and the loop goes on receiving.          *)
C12_AlertFailureCaught ==
    (alert.side # NoSide /\ ~alert.delivered)
        => /\ Committed
           /\ loop # "alerting"
           /\ written = UnitOfWork(TRUE, alert.side)
           /\ Row = Touch(TradeLogic(loaded, signals).portfolio)
           /\ Len(trades) > 0
           /\ Last(trades) = new_trade(alert.side, signals.price,
                                       TradeLogic(loaded, signals).portfolio,
                                       alert.reason)

C12_Witness ==
    /\ alert.side = "SELL"
    /\ ~alert.delivered
    /\ Len(trades) = 2
    /\ Last(trades).side = "SELL"
    /\ ~Row.in_position
    /\ Row.last_updated > loaded.last_updated

---------------------------------------------------------------------------
(* C13: every committed ready cycle, a HOLD included, updates last_updated  *)
(* of the row; a BUY or SELL appends exactly one Trade, whose cash and      *)
(* asset balances are those of the row after the mutation, and a HOLD       *)
(* appends none; the trades already recorded are never changed.             *)
C13_ApplyEffects ==
    [][/\ (signals'.ready /\ Committed'
             /\ (received' = received + 1 \/ loop = "alerting"))
            => /\ Head(portfolio').last_updated = Head(portfolio).last_updated + 1
               /\ IF trade_side' # NoSide
                  THEN /\ Len(trades') = Len(trades) + 1
                       /\ trades'[Len(trades')].side = trade_side'
                       /\ trades'[Len(trades')].usd_balance
                              = Head(portfolio').usd_balance
                       /\ trades'[Len(trades')].btc_balance
                              = Head(portfolio').btc_balance
                  ELSE trades' = trades
       /\ Len(trades') >= Len(trades)
       /\ \A i \in DOMAIN trades : trades'[i] = trades[i]]_vars

(* a committed HOLD of an open position *)
C13_Witness ==
    /\ signals.ready
    /\ Committed
    /\ trade_side = NoSide
    /\ loaded.in_position
    /\ Len(trades) = 1
    /\ Row.last_updated = loaded.last_updated + 1
    /\ SameLedger(Row, loaded)

---------------------------------------------------------------------------
(* C14 as stated: a ready cycle writes one price tick and one indicator     *)
(* snapshot, a BUY/SELL cycle one Trade and the Portfolio besides, and no   *)
(* indicator snapshot is written before 200 candles are in the window.      *)
C14_SnapshotsOnceReady ==
    /\ (signals.ready /\ Committed)
           => written = [prices |-> 1, indicators |-> 1, portfolio |-> 1,
                         trades |-> IF trade_side # NoSide THEN 1 ELSE 0]
    /\ ~signals.ready => written.indicators = 0

(* C14 as the code has it: every cycle that commits, warm-up or ready,      *)
(* writes exactly one price tick and one indicator snapshot; a ready cycle  *)
(* writes the Portfolio row as well, a BUY/SELL cycle exactly one Trade     *)
(* besides, a warm-up cycle neither.                                        *)
C14_EveryCycleLogged ==
    [][/\ (received' = received + 1 /\ loop' = "receiving")
            => /\ written'.prices = 1
               /\ written'.indicators = 1
               /\ written'.trades = 0
               /\ trades' = trades
               /\ written'.portfolio = (IF signals'.ready THEN 1 ELSE 0)
               /\ ~signals'.ready => portfolio' = portfolio
       /\ (loop = "alerting" /\ loop' = "receiving" /\ restarts' = restarts)
            => /\ written' = [prices |-> 1, indicators |-> 1, portfolio |-> 1,
                              trades |-> 1]
               /\ Len(trades') = Len(trades) + 1
               /\ portfolio' # portfolio]_vars

(* the first candle: a committed warm-up cycle with its snapshot of defaults *)
C14_Witness ==
    /\ received = 1
    /\ ~signals.ready
    /\ signals.rsi = RsiDefault
    /\ loop = "receiving"
    /\ written.prices = 1
    /\ written.indicators = 1
    /\ written.portfolio = 0

---------------------------------------------------------------------------
(* C15: a closed connection or a malformed payload is never fatal to        *)
(* market_data_loop.  The failure leaves the candle window, the Portfolio   *)
(* and the trades as they were and takes the loop to its next connection;   *)
(* the connection brings the loop back to receiving with the same window,   *)
(* the same Portfolio and no candle replayed; and a loop that lost its      *)
(* connection always receives again.                                        *)
C15_NeverFatal ==
    /\ [][(loop = "receiving" /\ loop' # "receiving" /\ received' = received)
             => /\ loop' = "reconnecting"
                /\ UNCHANGED <<df, portfolio, trades>>]_vars
    /\ [][loop = "reconnecting"
             => /\ loop' \in {"reconnecting", "receiving"}
                /\ UNCHANGED <<df, received, portfolio, trades>>]_vars
    /\ (loop = "reconnecting") ~> (loop = "receiving")

(* the connection is lost with a full window and an open position *)
C15_Witness ==
    /\ loop = "reconnecting"
    /\ Len(df) = WindowCap
    /\ received > WindowCap
    /\ Row.in_position
    /\ Len(trades) = 1

---------------------------------------------------------------------------
(* C16: whatever the moment of its poll, the dashboard reads the ledger of  *)
(* one commit: the initial one, or the cash, asset and position flag that   *)
(* one recorded trade left; never the cash of a trade with the asset or the *)
(* flag of the row before it.                                               *)
C16_ObserverSeesWholeRows ==
    \/ SameLedger(seen, DefaultPortfolio)
    \/ \E i \in DOMAIN trades :
          /\ seen.usd_balance = trades[i].usd_balance
          /\ seen.btc_balance = trades[i].btc_balance
          /\ seen.in_position = (trades[i].side = "BUY")

(* a poll while a SELL cycle awaits its alert: the row of the BUY, whole *)
C16_Witness ==
    /\ loop = "alerting"
    /\ trade_side = "SELL"
    /\ seen.in_position
    /\ seen = dashboard_read(loaded)
    /\ seen.usd_balance # TradeLogic(loaded, signals).portfolio.usd_balance

---------------------------------------------------------------------------
(* Round trip: the cycle just committed is a SELL at the price of the BUY   *)
(* recorded before it.                                                      *)
RoundTrip ==
    /\ signals.ready
    /\ Committed
    /\ trade_side = "SELL"
    /\ Len(trades) >= 2
    /\ trades[Len(trades) - 1].side = "BUY"
    /\ trades[Len(trades) - 1].price = signals.price

PreBuyCash ==
    IF Len(trades) > 2 THEN trades[Len(trades) - 2].usd_balance
                       ELSE Rat(InitialCash, 1)

(* the cash the BUY left unspent *)
SizingResidue == trades[Len(trades) - 1].usd_balance

(* C17 as stated: a BUY from FLAT followed by a SELL at the same price      *)
(* leaves asset_balance 0 and cash_balance at its pre-BUY value minus the   *)
(* cash the BUY left unspent.                                               *)
C17_RoundTripMinusResidue ==
    RoundTrip
        => /\ Row.btc_balance = Zero
           /\ Row.usd_balance = RSub(PreBuyCash, SizingResidue)

(* C17 as the code has it: a BUY from FLAT followed by a SELL at the same   *)
(* price leaves asset_balance exactly 0, the position closed, and           *)
(* cash_balance exactly at its pre-BUY value: the unspent 1% never left the *)
(* cash balance and the proceeds of the SELL are the 99% the BUY spent.     *)
C17_RoundTripRestoresCash ==
    RoundTrip
        => /\ Row.btc_balance = Zero
           /\ ~Row.in_position
           /\ Row.usd_balance = PreBuyCash
           /\ Last(trades).usd_balance = PreBuyCash
           /\ RAdd(SizingResidue,
                   RMul(trades[Len(trades) - 1].btc_balance, signals.price))
                  = PreBuyCash

C17_Witness ==
    /\ RoundTrip
    /\ signals.price = Rat(100, 1)
    /\ SizingResidue = Rat(100, 1)
    /\ trades[Len(trades) - 1].btc_balance = Rat(99, 1)
    /\ Row.usd_balance = Rat(10000, 1)

---------------------------------------------------------------------------
(* C18: init_db creates the row with cash 10000 and asset 0 only on an      *)
(* empty table; a restart that finds a row leaves it as it is, balances,    *)
(* position flag, entry price and high-water mark included, and the engine  *)
(* started anew works from that row; the table always holds exactly one row.*)
C18_InitDbOnce ==
    /\ portfolio = <<DefaultPortfolio>>
    /\ DefaultPortfolio.usd_balance = Rat(10000, 1)
    /\ DefaultPortfolio.btc_balance = Zero
    /\ [](Len(portfolio) = 1)
    /\ [][restarts' = restarts + 1
             => /\ portfolio' = portfolio
                /\ loaded' = Head(portfolio)]_vars

(* restarted with an open position, then a candle processed *)
C18_Witness ==
    /\ restarts = 1
    /\ received >= 1
    /\ Len(portfolio) = 1
    /\ Row.in_position
    /\ Row.entry_price = Rat(100, 1)
    /\ Row.highest_price = Rat(110, 1)
    /\ Row.btc_balance = Rat(99, 1)
    /\ loaded = Row

---------------------------------------------------------------------------
(* C20: every BUY/SELL alert delivered to the webhook belongs to a Trade    *)
(* that the same cycle persisted: once the cycle is over, a delivered alert *)
(* comes with a committed unit of work whose last Trade has the alert's     *)
(* side and reason and with the row that trade left.  The alert is posted   *)
(* before the commit, so a commit that fails, or a cancellation during the  *)
(* await, leaves the alert without its Trade.                               *)
C20_AlertHasTrade ==
    (alert.side # NoSide /\ alert.delivered /\ loop # "alerting")
        => /\ Committed
           /\ Len(trades) > 0
           /\ Last(trades).side = alert.side
           /\ Last(trades).reason = alert.reason
           /\ Row.in_position = (alert.side = "BUY")

---------------------------------------------------------------------------
(* C21: with positive close prices, a Portfolio with in_position = TRUE has *)
(* entry_price > 0 and highest_price > 0, in storage and as loaded by a     *)
(* cycle, so the divisors of pnl and drawdown in the LONG branch, the       *)
(* entry price and the high-water mark after its update, are never 0.       *)
C21_DivisorsPositive ==
    /\ \A close \in Prices \cup FeedPrices : RGt(close, Zero)
    /\ Row.in_position
           => RGt(Row.entry_price, Zero) /\ RGt(Row.highest_price, Zero)
    /\ loaded.in_position
           => /\ RGt(loaded.entry_price, Zero)
              /\ RGt(loaded.highest_price, Zero)
              /\ signals.ready => RGt(HighSeen, Zero)

(* a committed LONG cycle 4% under the entry price: both ratios computed *)
C21_Witness ==
    /\ ReadyLong
    /\ loaded.entry_price = Rat(100, 1)
    /\ loaded.highest_price = Rat(100, 1)
    /\ signals.price = Rat(96, 1)
    /\ PnlSeen = Rat(-4, 100)
    /\ DrawdownSeen = Rat(4, 100)
    /\ trade_side = "SELL"

====
